---- MODULE Spec2Model ----
(***************************************************************************)
(* Model of water_flow_daq_realTimePlot.py: class RealTimePlot.            *)
(*                                                                         *)
(* Two execution contexts: the worker thread started by run(), which runs  *)
(* __get_data (serial read, struct decode, CSV append, data_sent.emit),    *)
(* and the Qt UI context, which runs the __update slot for every queued    *)
(* data_sent event.  The serial device is the environment: it appends      *)
(* bytes to the driver's input buffer.                                     *)
(*                                                                         *)
(* Values: a Python int decoded by struct 'I' is a natural number; it is   *)
(* written <<"int", n>> where it sits in a list next to floats.  A float   *)
(* decoded by struct 'f' is written <<"f32", w>>, w its IEEE-754 bit       *)
(* pattern.  The quotient t / 1000 of __update is the pair <<t, 1000>>.    *)
(***************************************************************************)
EXTENDS Integers, Sequences, FiniteSets, TLC

\* ---------------------------------------------------------------- bounds
\* Number of transmissions (packets or truncated packets) of the device.
MaxPackets == 3
\* Largest channel-name count (len(data_set) without the time marker).
MaxChannels == 7
\* Largest display window capacity max_size.
MaxSize == 2
\* Length in bytes of a truncated transmission.
ShortLen == 8
\* Number of truncated transmissions in one run.
MaxShort == 1

\* ------------------------------------------------------ program constants
\* bytearray(24): the packet buffer, and the byte count of one readinto.
PacketLen == 24
\* Width in bytes of one struct field ('I' or 'f').
FieldLen == 4
\* Fields unpacked from one packet: timeStamp and five floats.
NumFields == 6

\* -------------------------------------------------------- configurations
\* (update_rate, sensor_rate) pairs of the constructor, in milliseconds.
RatePairs == {<<1, 1>>, <<2, 1>>, <<3, 2>>, <<1, 2>>}

\* ------------------------------------------------------------- encoding
\* Little-endian value of a byte sequence (struct native order on the
\* reference hosts).
RECURSIVE LE(_)
LE(b) == IF Len(b) = 0 THEN 0 ELSE b[1] + 256 * LE(Tail(b))

\* The device's encoding of a 32-bit word as four bytes.
Bytes32(w) ==
    <<w % 256, (w \div 256) % 256, (w \div 65536) % 256, (w \div 16777216) % 256>>

\* self._data_packet[a:b], 0-based half-open slice.
Slice(p, a, b) == SubSeq(p, a + 1, b)

\* struct.unpack('I', ...)[0]
UnpackI(b) == LE(b)
\* struct.unpack('f', ...)[0]
UnpackF(b) == <<"f32", LE(b)>>
PyInt(n) == <<"int", n>>

\* Variant: the slices of the first two channels are exchanged.
RawDataSwapped(p) ==
    <<PyInt(UnpackI(Slice(p, 0, 4))),
      UnpackF(Slice(p, 8, 12)),
      UnpackF(Slice(p, 4, 8)),
      UnpackF(Slice(p, 12, 16)),
      UnpackF(Slice(p, 16, 20)),
      UnpackF(Slice(p, 20, 24))>>

\* raw_data = [timeStamp, press1Bar, press2Bar, fm_gps, temp1C, temp2C]
RawData(p) ==
    <<PyInt(UnpackI(Slice(p, 0, 4))),
      UnpackF(Slice(p, 4, 8)),
      UnpackF(Slice(p, 8, 12)),
      UnpackF(Slice(p, 12, 16)),
      UnpackF(Slice(p, 16, 20)),
      UnpackF(Slice(p, 20, 24))>>

\* A packet as the instrument builds it: timestamp word, five channel words.
MkPacket(ts, ch) ==
    Bytes32(ts) \o Bytes32(ch[1]) \o Bytes32(ch[2]) \o Bytes32(ch[3])
        \o Bytes32(ch[4]) \o Bytes32(ch[5])

\* The packets the device may transmit.
DevicePackets ==
    { MkPacket(1000, <<11, 12, 13, 14, 15>>),
      MkPacket(66000, <<21, 22, 23, 24, 25>>) }

\* The packet a truncated transmission is cut from.
ShortPacket == MkPacket(1000, <<11, 12, 13, 14, 15>>)

\* ---------------------------------------------------------------- state
VARIABLES
    \* configuration, fixed by __init__
    time_from_serial, num_of_data, update_rate, sensor_rate, max_size,
    write_to_file,
    \* serial driver input buffer (bytes received, not yet read)
    inbuf,
    \* worker thread: position in __get_data, its locals and fields it owns
    workerPc, count, data_packet, time,
    \* the CSV file: [exists, rows]
    csv_file,
    \* data_sent events posted to the UI event queue, not yet delivered
    queue,
    \* UI context
    uiPc, datas_x, datas_y,
    \* an exception escaped __get_data (the worker thread is dead)
    raised,
    \* truncated transmissions so far
    shorts,
    \* history: transmissions so far, samples decoded, messages emitted
    \* (with the index of the decoded sample), messages pushed by __update,
    \* number of samples decoded when the window was closed, all bytes the
    \* device has transmitted
    sent, decoded, emitted, pushes, decodedAtClose, received

config == <<time_from_serial, num_of_data, update_rate, sensor_rate, max_size,
            write_to_file>>
workerVars == <<workerPc, count, data_packet, time>>
uiVars == <<uiPc, datas_x, datas_y>>
history == <<sent, decoded, emitted, pushes, decodedAtClose, received>>
vars == <<config, inbuf, shorts, workerVars, csv_file, queue, uiVars, raised,
          history>>

\* A (current_time, values) tuple as data_sent carries it.
Msg(t, v) == [time |-> t, values |-> v]

\* The header cell of channel i (data_set[i] after the marker is removed).
ChannelNames == <<"ch1", "ch2", "ch3", "ch4", "ch5", "ch6", "ch7", "ch8", "ch9">>
Header == <<"time">> \o SubSeq(ChannelNames, 1, num_of_data)

\* update_rate // sensor_rate
K == update_rate \div sensor_rate

Init ==
    /\ time_from_serial \in BOOLEAN
    /\ num_of_data \in 0..MaxChannels
    /\ \E r \in RatePairs : update_rate = r[1] /\ sensor_rate = r[2]
    /\ max_size \in 1..MaxSize
    /\ write_to_file \in BOOLEAN
    /\ inbuf = <<>>
    /\ shorts = 0
    /\ workerPc = "WAITING_FOR_DATA"
    /\ count = 0
    /\ data_packet = [i \in 1..PacketLen |-> 0]
    /\ time = 0
    /\ csv_file = IF write_to_file
                    THEN [exists |-> TRUE, header |-> Header, rows |-> <<>>]
                    ELSE [exists |-> FALSE, header |-> <<>>, rows |-> <<>>]
    /\ queue = <<>>
    /\ uiPc = "RUNNING"
    /\ datas_x = [i \in 1..num_of_data |-> <<>>]
    /\ datas_y = [i \in 1..num_of_data |-> <<>>]
    /\ raised = FALSE
    /\ sent = 0
    /\ decoded = <<>>
    /\ emitted = <<>>
    /\ pushes = <<>>
    /\ decodedAtClose = -1
    /\ received = <<>>

\* ----------------------------------------------------------- the device
\* The instrument transmits one whole packet.
DeviceSend(p) ==
    /\ uiPc # "ABORTED"
    /\ sent < MaxPackets
    /\ inbuf' = inbuf \o p
    /\ received' = received \o p
    /\ sent' = sent + 1
    /\ UNCHANGED <<config, shorts, workerVars, csv_file, queue, uiVars, raised,
                   decoded, emitted, pushes, decodedAtClose>>

\* The instrument transmits a truncated packet: its first ShortLen bytes.
DeviceSendShort(p) ==
    /\ uiPc # "ABORTED"
    /\ sent < MaxPackets
    /\ shorts < MaxShort
    /\ inbuf' = inbuf \o SubSeq(p, 1, ShortLen)
    /\ received' = received \o SubSeq(p, 1, ShortLen)
    /\ sent' = sent + 1
    /\ shorts' = shorts + 1
    /\ UNCHANGED <<config, workerVars, csv_file, queue, uiVars, raised,
                   decoded, emitted, pushes, decodedAtClose>>

\* ----------------------------------------------------------- the worker
\* Variant: the loop tests a shutdown flag set when the window is closed.
PollWithShutdownFlag ==
    /\ uiPc # "ABORTED"
    /\ workerPc = "WAITING_FOR_DATA"
    /\ IF uiPc = "CLOSED"
         THEN workerPc' = "STOPPED" /\ UNCHANGED count
         ELSE IF Len(inbuf) > 0
                THEN count' = count + 1 /\ workerPc' = "DECODING"
                ELSE UNCHANGED <<count, workerPc>>
    /\ UNCHANGED <<config, inbuf, shorts, data_packet, time, csv_file, queue,
                   uiVars, raised, history>>

\* Variant: the loop starts a read without testing in_waiting.
PollNoCheck ==
    /\ uiPc # "ABORTED"
    /\ workerPc = "WAITING_FOR_DATA"
    /\ count' = count + 1
    /\ workerPc' = "DECODING"
    /\ UNCHANGED <<config, inbuf, shorts, data_packet, time, csv_file, queue,
                   uiVars, raised, history>>

\* Top of the while loop: if self._ser.in_waiting > 0: count += 1.  (The
\* local data = None, [] is overwritten before its only use, see Data.)
Poll ==
    /\ uiPc # "ABORTED"
    /\ workerPc = "WAITING_FOR_DATA"
    /\ IF Len(inbuf) > 0
         THEN count' = count + 1 /\ workerPc' = "DECODING"
         ELSE UNCHANGED <<count, workerPc>>
    /\ UNCHANGED <<config, inbuf, shorts, data_packet, time, csv_file, queue, uiVars,
                   raised, history>>

\* The local data of __get_data once raw_data is built from packet p and
\* self._time has the value t:
\*   if self._time_from_serial: data = raw_data[0], raw_data[1:]
\*   else: (self._time += self._update_rate) data = self._time, raw_data
Data(p, t) ==
    IF time_from_serial
      THEN Msg(RawData(p)[1][2], Tail(RawData(p)))
      ELSE Msg(t, RawData(p))

\* Variant: the read returns with the bytes that are there (a read timeout)
\* and the rest of the buffer keeps its previous content.
ReadDecodeNoBlock ==
    /\ uiPc # "ABORTED"
    /\ workerPc = "DECODING"
    /\ Len(inbuf) > 0
    /\ LET n == IF Len(inbuf) < PacketLen THEN Len(inbuf) ELSE PacketLen
       IN  /\ data_packet' = SubSeq(inbuf, 1, n)
                               \o SubSeq(data_packet, n + 1, PacketLen)
           /\ inbuf' = SubSeq(inbuf, n + 1, Len(inbuf))
    /\ time' = IF time_from_serial THEN time ELSE time + update_rate
    /\ decoded' = Append(decoded, RawData(data_packet'))
    /\ workerPc' = "DISPATCHING"
    /\ UNCHANGED <<config, shorts, count, csv_file, queue, uiVars, raised,
                   sent, emitted, pushes, decodedAtClose, received>>

\* self._ser.readinto(self._data_packet) blocks (timeout=None) until
\* PacketLen bytes have been read; then the six unpacks, raw_data, and
\* self._time += self._update_rate when the host keeps the clock.
ReadDecode ==
    /\ uiPc # "ABORTED"
    /\ workerPc = "DECODING"
    /\ Len(inbuf) >= PacketLen
    /\ data_packet' = SubSeq(inbuf, 1, PacketLen)
    /\ inbuf' = SubSeq(inbuf, PacketLen + 1, Len(inbuf))
    /\ time' = IF time_from_serial THEN time ELSE time + update_rate
    /\ decoded' = Append(decoded, RawData(data_packet'))
    /\ workerPc' = "DISPATCHING"
    /\ UNCHANGED <<config, shorts, count, csv_file, queue, uiVars, raised,
                   sent, emitted, pushes, decodedAtClose, received>>

\* Variant: the row replaces the last row instead of following it.
CsvOverwriteLast(f, row) ==
    [f EXCEPT !.rows = IF Len(@) = 0 THEN <<row>>
                       ELSE SubSeq(@, 1, Len(@) - 1) \o <<row>>]

\* csv.writer(file).writerow(row) on the file opened in append mode.
CsvAppend(f, row) == [f EXCEPT !.rows = Append(@, row)]

\* Variant: the row is written whether or not logging is enabled.
WriteToCsvAlways ==
    /\ uiPc # "ABORTED"
    /\ workerPc = "DISPATCHING"
    /\ \/ /\ csv_file' = CsvAppend(csv_file, RawData(data_packet))
          /\ workerPc' = "FORWARDING"
          /\ UNCHANGED raised
       \/ /\ raised' = TRUE
          /\ workerPc' = "STOPPED"
          /\ UNCHANGED csv_file
    /\ UNCHANGED <<config, inbuf, shorts, count, data_packet, time, queue,
                   uiVars, history>>

\* Variant: the row of a sample that is about to be forwarded is not
\* written before the forward.
WriteToCsvSkipForwarded ==
    /\ uiPc # "ABORTED"
    /\ workerPc = "DISPATCHING"
    /\ IF write_to_file /\ count # K
         THEN \/ /\ csv_file' = CsvAppend(csv_file, RawData(data_packet))
                 /\ workerPc' = "FORWARDING"
                 /\ UNCHANGED raised
              \/ /\ raised' = TRUE
                 /\ workerPc' = "STOPPED"
                 /\ UNCHANGED csv_file
         ELSE /\ workerPc' = "FORWARDING"
              /\ UNCHANGED <<csv_file, raised>>
    /\ UNCHANGED <<config, inbuf, shorts, count, data_packet, time, queue,
                   uiVars, history>>

\* Variant: a failed write is swallowed and the loop goes on.
WriteToCsvSwallow ==
    /\ uiPc # "ABORTED"
    /\ workerPc = "DISPATCHING"
    /\ IF write_to_file
         THEN \/ /\ csv_file' = CsvAppend(csv_file, RawData(data_packet))
                 /\ UNCHANGED raised
              \/ /\ raised' = TRUE
                 /\ UNCHANGED csv_file
         ELSE UNCHANGED <<csv_file, raised>>
    /\ workerPc' = "FORWARDING"
    /\ UNCHANGED <<config, inbuf, shorts, count, data_packet, time, queue,
                   uiVars, history>>

\* if self._write_to_file: self.__write_to_csv(raw_data).  The open or the
\* write may raise OSError, which escapes __get_data and ends the thread.
WriteToCsv ==
    /\ uiPc # "ABORTED"
    /\ workerPc = "DISPATCHING"
    /\ IF write_to_file
         THEN \/ /\ csv_file' = CsvAppend(csv_file, RawData(data_packet))
                 /\ workerPc' = "FORWARDING"
                 /\ UNCHANGED raised
              \/ /\ raised' = TRUE
                 /\ workerPc' = "STOPPED"
                 /\ UNCHANGED csv_file
         ELSE /\ workerPc' = "FORWARDING"
              /\ UNCHANGED <<csv_file, raised>>
    /\ UNCHANGED <<config, inbuf, shorts, count, data_packet, time, queue,
                   uiVars, history>>

\* Variant: a one-slot channel, the new message overwrites a pending one.
EmitOverwrite(q, m) == <<m>>

\* Variant: the new message overtakes the pending ones.
EmitFront(q, m) == <<m>> \o q

\* data_sent.emit(data) from the worker thread: the receiver lives in the
\* UI thread, so the connection is queued and the call posts one event.
Emit(q, m) == Append(q, m)

\* Variant: the counter is not reset after a forward.
ForwardNoReset ==
    /\ uiPc # "ABORTED"
    /\ workerPc = "FORWARDING"
    /\ IF count = K
         THEN /\ queue' = Emit(queue, Data(data_packet, time))
              /\ emitted' = Append(emitted, [idx |-> Len(decoded),
                                             msg |-> Data(data_packet, time)])
         ELSE UNCHANGED <<queue, emitted>>
    /\ UNCHANGED count
    /\ workerPc' = "WAITING_FOR_DATA"
    /\ UNCHANGED <<config, inbuf, shorts, data_packet, time, csv_file, uiVars,
                   raised, sent, decoded, pushes, decodedAtClose,
                   received>>

\* Variant: a direct connection, the slot runs inside emit on the worker
\* thread and appends to the display series there.
ForwardDirect ==
    /\ uiPc # "ABORTED"
    /\ workerPc = "FORWARDING"
    /\ IF count = K
         THEN /\ count' = 0
              /\ emitted' = Append(emitted, [idx |-> Len(decoded),
                                             msg |-> Data(data_packet, time)])
              /\ datas_y' = [i \in 1..Len(datas_y) |->
                                Append(datas_y[i], Data(data_packet, time).values[i])]
              /\ datas_x' = [i \in 1..Len(datas_x) |->
                                Append(datas_x[i], Data(data_packet, time).time)]
         ELSE UNCHANGED <<count, emitted, datas_x, datas_y>>
    /\ workerPc' = "WAITING_FOR_DATA"
    /\ UNCHANGED <<config, inbuf, shorts, data_packet, time, csv_file, queue,
                   uiPc, raised, sent, decoded, pushes, decodedAtClose,
                   received>>

\* Variant: a blocking connection, emit returns only when the UI has
\* consumed the pending messages.
ForwardBlocking ==
    /\ uiPc # "ABORTED"
    /\ workerPc = "FORWARDING"
    /\ queue = <<>>
    /\ IF count = K
         THEN /\ queue' = Emit(queue, Data(data_packet, time))
              /\ count' = 0
              /\ emitted' = Append(emitted, [idx |-> Len(decoded),
                                             msg |-> Data(data_packet, time)])
         ELSE UNCHANGED <<queue, count, emitted>>
    /\ workerPc' = "WAITING_FOR_DATA"
    /\ UNCHANGED <<config, inbuf, shorts, data_packet, time, csv_file, uiVars,
                   raised, sent, decoded, pushes, decodedAtClose,
                   received>>

\* if count == self._update_rate // self._sensor_rate: emit; count = 0
Forward ==
    /\ uiPc # "ABORTED"
    /\ workerPc = "FORWARDING"
    /\ IF count = K
         THEN /\ queue' = Emit(queue, Data(data_packet, time))
              /\ count' = 0
              /\ emitted' = Append(emitted, [idx |-> Len(decoded),
                                             msg |-> Data(data_packet, time)])
         ELSE UNCHANGED <<queue, count, emitted>>
    /\ workerPc' = "WAITING_FOR_DATA"
    /\ UNCHANGED <<config, inbuf, shorts, data_packet, time, csv_file, uiVars,
                   raised, sent, decoded, pushes, decodedAtClose,
                   received>>

\* --------------------------------------------------------- the UI context
Min(a, b) == IF a < b THEN a ELSE b

\* current_time / 1000
Div1000(t) == <<t, 1000>>

\* [np.append(data_y, value) for data_y, value in zip(self._datas_y, values)]
AppendY(ys, values) ==
    [i \in 1..Min(Len(ys), Len(values)) |-> Append(ys[i], values[i])]

\* [np.append(data_x, current_time / 1000) for data_x in self._datas_x]
AppendX(xs, current_time) ==
    [i \in 1..Len(xs) |-> Append(xs[i], Div1000(current_time))]

\* Variant: the newest point is evicted instead of the oldest.
DropNewest(series) ==
    [i \in 1..Len(series) |-> SubSeq(series[i], 1, Len(series[i]) - 1)]

\* [d[1:] for d in series]
DropOldest(series) == [i \in 1..Len(series) |-> Tail(series[i])]

\* The __update slot, run by the UI event loop for the oldest queued event.
\* With no y series left, len(self._datas_y[0]) raises IndexError inside the
\* slot: the binding either aborts the process or reports it and goes on.
Update ==
    /\ uiPc # "ABORTED"
    /\ uiPc = "RUNNING"
    /\ queue # <<>>
    /\ LET current_time == Head(queue).time
           values == Head(queue).values
           ys == AppendY(datas_y, values)
           xs == AppendX(datas_x, current_time)
       IN  IF Len(values) > 0
             THEN IF Len(ys) = 0
                    THEN /\ datas_y' = ys
                         /\ datas_x' = xs
                         /\ uiPc' \in {"RUNNING", "ABORTED"}
                         /\ UNCHANGED pushes
                    ELSE /\ IF Len(ys[1]) > max_size
                              THEN /\ datas_y' = DropOldest(ys)
                                   /\ datas_x' = DropOldest(xs)
                              ELSE /\ datas_y' = ys
                                   /\ datas_x' = xs
                         /\ pushes' = Append(pushes, Head(queue))
                         /\ UNCHANGED uiPc
             ELSE UNCHANGED <<datas_x, datas_y, pushes, uiPc>>
    /\ queue' = Tail(queue)
    /\ UNCHANGED <<config, inbuf, shorts, workerVars, csv_file, raised,
                   sent, decoded, emitted, decodedAtClose, received>>

\* The window is closed: pg.exec() returns and run() with it.  Nothing
\* tells the worker; queued events are no longer delivered.  The worker is
\* a daemon thread: it runs on for as long as the process does (the exit of
\* the process is the end of the behaviour).
CloseWindow ==
    /\ uiPc # "ABORTED"
    /\ uiPc = "RUNNING"
    /\ uiPc' = "CLOSED"
    /\ decodedAtClose' = Len(decoded)
    /\ UNCHANGED <<config, inbuf, shorts, workerVars, csv_file, queue, datas_x,
                   datas_y, raised, sent, decoded, emitted, pushes,
                   received>>

Next ==
    \/ \E p \in DevicePackets : DeviceSend(p)
    \/ DeviceSendShort(ShortPacket)
    \/ Poll
    \/ ReadDecode
    \/ WriteToCsv
    \/ Forward
    \/ Update
    \/ CloseWindow

Spec == Init /\ [][Next]_vars

\* ---------------------------------------------------------------- claims
\* The channel part of a forwarded message: its last NumFields - 1 values.
Channels(m) ==
    SubSeq(m.values, Len(m.values) - (NumFields - 2), Len(m.values))

\* The worker is between two iterations of the loop (or has found bytes
\* waiting and not read them yet).
BetweenPackets == workerPc \in {"WAITING_FOR_DATA", "DECODING"}

\* C1: with logging enabled, once n packets have gone through the loop the
\* file holds the header and exactly n rows, row j being the raw values of
\* the j-th decoded sample, whatever the down-sampling factor K is.
C1_LogHoldsEveryDecodedSample ==
    (write_to_file /\ (BetweenPackets \/ workerPc = "FORWARDING")) =>
        /\ csv_file.exists
        /\ csv_file.header = Header
        /\ csv_file.rows = decoded

C1_Witness ==
    /\ write_to_file
    /\ workerPc = "WAITING_FOR_DATA"
    /\ K = 2
    /\ Len(decoded) = 3
    /\ Len(csv_file.rows) = 3
    /\ csv_file.rows[1] # csv_file.rows[2]
    /\ Len(emitted) = 1

\* C2: for K >= 1, after n packets have gone through the loop exactly
\* floor(n / K) samples have been forwarded, the samples at positions
\* K, 2K, 3K, ... of the stream (and all n are logged).
C2_ForwardsEveryKth ==
    (K >= 1 /\ workerPc = "WAITING_FOR_DATA") =>
        /\ Len(emitted) = Len(decoded) \div K
        /\ \A j \in 1..Len(emitted) :
              /\ emitted[j].idx = j * K
              /\ Channels(emitted[j].msg) = Tail(decoded[j * K])
        /\ write_to_file => Len(csv_file.rows) = Len(decoded)

C2_Witness ==
    /\ K = 2
    /\ workerPc = "WAITING_FOR_DATA"
    /\ Len(decoded) = 3
    /\ Len(emitted) = 1
    /\ emitted[1].idx = 2
    /\ decoded[1] # decoded[2]

\* C3 (as claimed): when update_rate < sensor_rate, K is clamped to 1 and
\* every decoded sample is forwarded to the display.
C3_ClampedToOne ==
    (update_rate < sensor_rate /\ workerPc = "WAITING_FOR_DATA") =>
        Len(emitted) = Len(decoded)

\* The last n elements of a sequence.
LastN(q, n) == SubSeq(q, Len(q) - n + 1, Len(q))

\* C4: no series ever holds more than max_size points, and once more than
\* max_size pushes have been applied every series holds exactly the most
\* recent max_size pushed points, oldest first.
C4_WindowIsLastMaxSizePushes ==
    /\ \A i \in 1..Len(datas_y) : Len(datas_y[i]) <= max_size
    /\ \A i \in 1..Len(datas_x) : Len(datas_x[i]) <= max_size
    /\ Len(pushes) > max_size =>
          LET recent == LastN(pushes, max_size)
          IN  /\ \A i \in 1..Len(datas_y) :
                    datas_y[i] = [k \in 1..max_size |-> recent[k].values[i]]
              /\ \A i \in 1..Len(datas_x) :
                    datas_x[i] = [k \in 1..max_size |-> Div1000(recent[k].time)]

C4_Witness ==
    /\ max_size = 2
    /\ Len(pushes) = 3
    /\ pushes[1] # pushes[2]
    /\ num_of_data = 5
    /\ Len(datas_y[1]) = 2
    /\ datas_y[1][1] = pushes[2].values[1]

\* C5 (as claimed): for any channel count N there are exactly N x series
\* and N y series, all of the same length.
C5_SeriesInLockstep ==
    /\ Len(datas_x) = num_of_data
    /\ Len(datas_y) = num_of_data
    /\ \A i \in 1..Len(datas_x) : \A j \in 1..Len(datas_y) :
          Len(datas_x[i]) = Len(datas_y[j])

\* C6 (as claimed): with a host-kept clock, the j-th forwarded sample
\* carries time j * update_rate, for every K >= 1.
C6_ClockAdvancesPerForward ==
    (~time_from_serial /\ K >= 1) =>
        \A j \in 1..Len(emitted) : emitted[j].msg.time = j * update_rate

\* C7 (as claimed): a forwarded message carries exactly the N channel values
\* of the decoded sample, in channel order, never the timestamp field.
\* Stated for the channel count the packet format has (NumFields - 1).
C7_MessageCarriesChannels ==
    (num_of_data = NumFields - 1) =>
        \A j \in 1..Len(emitted) :
            /\ Len(emitted[j].msg.values) = num_of_data
            /\ \A i \in 1..num_of_data :
                  emitted[j].msg.values[i] = decoded[emitted[j].idx][i + 1]

\* C8: the messages pushed into the display series are, in order, the
\* messages emitted, and those are taken from samples of strictly
\* increasing position in the decoded stream: a subsequence, nothing
\* reordered, nothing duplicated.
C8_DisplayInDecodeOrder ==
    /\ Len(pushes) <= Len(emitted)
    /\ \A j \in 1..Len(pushes) : pushes[j] = emitted[j].msg
    /\ \A j \in 1..Len(emitted) :
          /\ emitted[j].idx \in 1..Len(decoded)
          /\ Channels(emitted[j].msg) = Tail(decoded[emitted[j].idx])
          /\ j > 1 => emitted[j - 1].idx < emitted[j].idx

C8_Witness ==
    /\ Len(pushes) = 2
    /\ Len(queue) = 1
    /\ pushes[1] # pushes[2]
    /\ Len(decoded) = 3

\* C9 (as claimed): at most one forwarded message is pending between the
\* worker's emit and the UI's consumption.
C9_SingleSlot == Len(queue) <= 1

\* C9 (amended): the handoff is a FIFO queue.  The pending messages are the
\* emitted messages the UI has not consumed yet, in emission order; none is
\* overwritten, and more than one can be pending.
C9_QueueHoldsAllUndelivered ==
    /\ Len(queue) <= Len(emitted)
    /\ \A k \in 1..Len(queue) :
          queue[k] = emitted[Len(emitted) - Len(queue) + k].msg
    /\ num_of_data >= 1 => Len(pushes) + Len(queue) = Len(emitted)

C9_Witness ==
    /\ Len(queue) = 2
    /\ queue[1] # queue[2]
    /\ Len(pushes) = 1
    /\ uiPc = "RUNNING"

\* C10 (as claimed): once the window is closed (the only shutdown there is)
\* the worker stops after at most one further packet.
C10_StopsWithinOnePacket ==
    decodedAtClose >= 0 => Len(decoded) <= decodedAtClose + 1

\* C10 (amended): there is no shutdown flag.  The worker thread ends only
\* when an exception escapes the loop; closing the window does not stop it,
\* and with bytes waiting it goes on to the next packet.
C10_NoShutdownFlag ==
    /\ (workerPc = "STOPPED") <=> raised
    /\ (uiPc = "CLOSED" /\ workerPc = "WAITING_FOR_DATA" /\ Len(inbuf) > 0) =>
          ENABLED (Poll /\ workerPc' = "DECODING")

C10_Witness ==
    /\ uiPc = "CLOSED"
    /\ decodedAtClose >= 0
    /\ Len(decoded) >= decodedAtClose + 2
    /\ workerPc = "WAITING_FOR_DATA"
    /\ Len(emitted) >= 2

\* The number of whole packets the device has transmitted bytes for.
WholePackets == Len(received) \div PacketLen

\* C11: bytes short of a whole packet add nothing.  No sample, log row or
\* display point exists beyond the whole packets received; the worker
\* blocks in the read instead of raising (the only exception that leaves
\* the loop is a failed log write of a decoded sample).
C11_TruncatedPacketAddsNothing ==
    /\ Len(decoded) <= WholePackets
    /\ Len(csv_file.rows) <= WholePackets
    /\ Len(pushes) <= WholePackets
    /\ \A i \in 1..Len(datas_y) : Len(datas_y[i]) <= WholePackets
    /\ \A i \in 1..Len(datas_x) : Len(datas_x[i]) <= WholePackets
    /\ raised => /\ write_to_file
                 /\ Len(csv_file.rows) = Len(decoded) - 1
    /\ (workerPc = "DECODING" /\ Len(inbuf) < PacketLen) =>
          ~raised /\ ~ENABLED ReadDecode

C11_Witness ==
    /\ Len(received) = 2 * PacketLen + ShortLen
    /\ Len(inbuf) = ShortLen
    /\ sent = 3
    /\ workerPc = "DECODING"
    /\ Len(decoded) = 2
    /\ write_to_file
    /\ Len(csv_file.rows) = 2
    /\ K = 1
    /\ Len(pushes) = 2
    /\ ~raised

\* C12 (as claimed): a short packet in the stream does not corrupt later
\* data; every decoded sample is the decoding of the 24 bytes of one
\* well-formed packet the device transmitted.
C12_DecodedFromOwnBytes ==
    \A j \in 1..Len(decoded) :
        \E p \in DevicePackets : decoded[j] = RawData(p)

\* The message the loop builds from the i-th decoded sample.
ExpectedMsg(i) ==
    IF time_from_serial
      THEN Msg(decoded[i][1][2], Tail(decoded[i]))
      ELSE Msg(i * update_rate, decoded[i])

\* C13: with logging disabled no file exists and nothing is written, and
\* the forwarded samples (count, order, time, values) are given by the
\* decoded stream and the rates alone, the same with or without logging.
C13_DisabledLogChangesNothing ==
    /\ ~write_to_file =>
          /\ ~csv_file.exists
          /\ csv_file.rows = <<>>
          /\ csv_file.header = <<>>
          /\ ~raised
    /\ workerPc = "WAITING_FOR_DATA" =>
          /\ Len(emitted) = IF K = 0 THEN 0 ELSE Len(decoded) \div K
          /\ \A j \in 1..Len(emitted) :
                emitted[j] = [idx |-> j * K, msg |-> ExpectedMsg(j * K)]

C13_Witness ==
    /\ ~write_to_file
    /\ workerPc = "WAITING_FOR_DATA"
    /\ Len(decoded) = 3
    /\ K = 1
    /\ Len(emitted) = 3
    /\ Len(pushes) = 2

\* C14: a failed log write is never silent: the exception ends the loop.
\* From the failing step on the worker is stopped and nothing more is
\* decoded, logged or forwarded.
C14_LogFailureStopsAcquisition ==
    [][raised' => /\ workerPc' = "STOPPED"
                  /\ csv_file' = csv_file
                  /\ decoded' = decoded
                  /\ emitted' = emitted
                  /\ Len(queue') <= Len(queue)]_vars

C14_Witness ==
    /\ raised
    /\ workerPc = "STOPPED"
    /\ Len(inbuf) >= PacketLen
    /\ Len(decoded) = 2
    /\ Len(csv_file.rows) = 1
    /\ sent = 3

\* C15 (as claimed): a channel-name count other than the packet's channel
\* count stops construction, so the loop never starts: nothing is decoded,
\* logged or pushed.
C15_MismatchFatalAtStartup ==
    (num_of_data # NumFields - 1) =>
        /\ workerPc = "WAITING_FOR_DATA"
        /\ decoded = <<>>
        /\ csv_file.rows = <<>>
        /\ pushes = <<>>

\* The 24 bytes the j-th read takes from the stream.
Block(j) == SubSeq(received, (j - 1) * PacketLen + 1, j * PacketLen)

\* The bytes of field f (0 the timestamp, 1..5 the channels) of packet p.
FieldBytes(p, f) == Slice(p, FieldLen * f, FieldLen * f + FieldLen)

\* C16: decoding is positional.  Two packets that agree on the bytes of a
\* field decode to the same value of that field, whatever their other
\* bytes are and whatever was read before them.  Stated where a sample has
\* just been decoded, for that sample against every sample decoded so far
\* (the earlier pairs were compared when the earlier samples were decoded).
C16_DecodingIsPositional ==
    workerPc = "DISPATCHING" =>
        LET i == Len(decoded)
        IN  \A j \in 1..i : \A f \in 0..(NumFields - 1) :
                FieldBytes(Block(i), f) = FieldBytes(Block(j), f) =>
                    decoded[i][f + 1] = decoded[j][f + 1]

C16_Witness ==
    /\ Len(decoded) = 2
    /\ Block(1) # Block(2)
    /\ FieldBytes(Block(1), 1) = FieldBytes(Block(2), 1)
    /\ FieldBytes(Block(1), 2) # FieldBytes(Block(2), 2)
    /\ decoded[1][2] = decoded[2][2]
    /\ decoded[1][3] # decoded[2][3]
    /\ workerPc = "DISPATCHING"

\* C17 (as claimed): a packet read is started only when a full packet's
\* worth of bytes is available.
C17_ReadStartsOnFullPacket ==
    workerPc = "DECODING" => Len(inbuf) >= PacketLen

\* C17 (amended): the loop leaves WAITING_FOR_DATA as soon as one byte or
\* more is available; the read it starts completes only when a full packet
\* of bytes has arrived, and takes exactly the first PacketLen bytes.
C17_ReadStartsOnAnyByte ==
    [][/\ (workerPc = "WAITING_FOR_DATA" /\ workerPc' # "WAITING_FOR_DATA") =>
            (Len(inbuf) > 0 /\ workerPc' = "DECODING")
       /\ (workerPc = "DECODING" /\ workerPc' # "DECODING") =>
            /\ Len(inbuf) >= PacketLen
            /\ data_packet' = SubSeq(inbuf, 1, PacketLen)
            /\ Len(inbuf') = Len(inbuf) - PacketLen
            /\ workerPc' = "DISPATCHING"]_vars

C17_Witness ==
    /\ workerPc = "DECODING"
    /\ Len(inbuf) = ShortLen
    /\ Len(inbuf) < PacketLen
    /\ decoded = <<>>
    /\ count = 1

\* C18: with logging enabled, every sample that has been emitted toward
\* the display (or is about to be) already has its row in the log file.
C18_LoggedBeforeForwarded ==
    write_to_file =>
        /\ \A j \in 1..Len(emitted) :
              /\ emitted[j].idx <= Len(csv_file.rows)
              /\ csv_file.rows[emitted[j].idx] = decoded[emitted[j].idx]
        /\ workerPc = "FORWARDING" => Len(csv_file.rows) = Len(decoded)

C18_Witness ==
    /\ write_to_file
    /\ K = 2
    /\ Len(emitted) = 1
    /\ Len(pushes) = 1
    /\ Len(csv_file.rows) = 2
    /\ workerPc = "WAITING_FOR_DATA"

C20_WorkerNeverWaitsForUi ==
    (uiPc # "ABORTED" /\ queue # <<>>) =>
        /\ (workerPc = "WAITING_FOR_DATA" /\ Len(inbuf) > 0) =>
              ENABLED (Poll /\ workerPc' = "DECODING")
        /\ (workerPc = "DECODING" /\ Len(inbuf) >= PacketLen) =>
              ENABLED ReadDecode
        /\ workerPc = "DISPATCHING" => ENABLED WriteToCsv
        /\ workerPc = "FORWARDING" => ENABLED Forward

C20_Witness ==
    /\ Len(queue) = 2
    /\ pushes = <<>>
    /\ uiPc = "RUNNING"
    /\ write_to_file
    /\ Len(csv_file.rows) = 3
    /\ workerPc = "FORWARDING"
    /\ count = K
====
